---- MODULE Spec2Model ----
(***************************************************************************)
(* The evohome integration: the EvoBroker of coordinator.py (credential    *)
(* store, login/start, the update cycle over the primary (v2) and the      *)
(* legacy (v1) API) and the schedule projection of EvoChild (__init__.py). *)
(*                                                                         *)
(* Every `await` of the source is a suspension point: a task is at one of  *)
(* them between two steps, and the steps of different tasks interleave as  *)
(* the asyncio event loop lets them.                                       *)
(***************************************************************************)
EXTENDS Integers, Sequences, FiniteSets, TLC

(* ------------------------------ bounds -------------------------------- *)

\* primary status refreshes started in one process lifetime
MaxRefresh == 2

\* locations of the account (client.installation_info has this many entries)
NumLocs == 2

\* heating zones of the control system
NumZones == 1

\* delayed state refreshes (async_call_later) that may be pending at once
MaxTimers == 1

\* seconds of a day: the times of day "%H:%M:%S" are 0 .. DayLen - 1
DayLen == 3

\* clock ticks of a second: dt_util.now() is finer than "%H:%M:%S"
SubSec == 2

\* switchpoints of a day of the schedules tried
MaxSp == 2

\* device updates (EvoChild.async_update) started in one process lifetime
MaxUpdates == 2

(* ------------------------------ values -------------------------------- *)

\* Python's None where a string is expected (a token, a session id, a name)
None == "None"

Username == "me"

\* the access tokens the vendor mints, in the order it mints them
Tokens == {"a1", "a2"}

\* the legacy session ids the vendor mints, in the order it mints them
SessionIds == {"s1", "s2"}

\* The vendor never mints a value twice: a client holding x holds x or the
\* value minted after x once a call has returned (the last value is kept).
Minted(x, first, last) ==
    IF x = None THEN first ELSE IF x = first THEN last ELSE x

\* the access tokens a client holding token x may hold after a call
TokensAfter(x) == {y \in Tokens : y = x \/ y = Minted(x, "a1", "a2")}

\* the session ids a legacy client holding x may hold after a call that
\* logged in
SessionsAfter(x) == {y \in SessionIds : y = x \/ y = Minted(x, "s1", "s2")}

Dev == {"d1", "d2"}

\* the tasks that run an update cycle, and the delayed primary refresh
CycleTasks == {"tick", "svc"}

Tasks == CycleTasks \cup {"later"}

Locs == 0 .. (NumLocs - 1)

\* the configured location indexes tried: the last location written as a
\* negative index, the first location, and an index past the last location
LocIdxs == {0 - 1, 0, NumLocs}

\* no location selected yet (EvoBroker.loc is set by start())
NoLoc == 0 - 1

\* A temperature is a pair <<api, value>>: a high-precision reading of the
\* legacy API, a coarse value of the primary status, or Python's None.
NoTemp == <<"none", 0>>

\* a high-precision reading of a device of location l
Reading(l) == <<"v1", 210 + l>>

\* a later high-precision reading of a device of location l
LaterReading(l) == <<"v1", 220 + l>>

\* the responses get_temperatures() may give for the legacy default location
\* l: a reading for every device, a null temperature for the device d2, or
\* a later reading for every device
TempResponses(l) ==
    {[d \in Dev |-> Reading(l)],
     [d \in Dev |-> IF d = "d2" THEN NoTemp ELSE Reading(l)],
     [d \in Dev |-> LaterReading(l)]}

\* the status blobs refresh_status() may give (coarse temperature per device)
StatusBlobs ==
    {[d \in Dev |-> <<"v2", 19>>],
     [d \in Dev |-> IF d = "d1" THEN <<"v2", 19>> ELSE <<"v2", 20>>]}

\* the status of a location that was never refreshed
NoStatus == [d \in Dev |-> NoTemp]

\* the empty dict {}
EmptyTemps == [d \in {} |-> NoTemp]

\* the refresh token and the expiry (a naive local datetime, in seconds)
\* that the vendor issues together with access token a
RefreshOf(a) == IF a = "a1" THEN "r1" ELSE IF a = "a2" THEN "r2" ELSE None

\* no expiry: access_token_expires is None
NoExpiry == 0 - 1

ExpiresOf(a) == IF a = "a1" THEN 1 ELSE IF a = "a2" THEN 2 ELSE NoExpiry

\* no stored expiry: the record has no ACCESS_TOKEN_EXPIRES
NoIso == [naive |-> NoExpiry, off |-> 0]

\* an absent primary client
NoClient ==
    [exists |-> FALSE, refresh_token |-> None, access_token |-> None,
     access_token_expires |-> NoExpiry]

\* evo.EvohomeClient(username, password, **tokens)
ClientHolding(tk) ==
    [exists |-> TRUE, refresh_token |-> tk.refresh_token,
     access_token |-> tk.access_token,
     access_token_expires |-> tk.access_token_expires]

\* the primary client once the vendor has issued it access token a
ClientWith(a) ==
    [exists |-> TRUE, refresh_token |-> RefreshOf(a), access_token |-> a,
     access_token_expires |-> ExpiresOf(a)]

\* EvoBroker._tokens = {}
EmptyTokens ==
    [refresh_token |-> None, access_token |-> None,
     access_token_expires |-> NoExpiry]

\* an absent legacy client (EvoBroker.client_v1 is None)
NoClientV1 == [exists |-> FALSE, user_sid |-> None, broker_sid |-> None]

\* no legacy fetch is under way in the task
NoSessionSeen == [seen |-> None, held |-> None]

\* an absent record of the store (Store.async_load() returns None)
NoRecord ==
    [exists |-> FALSE, username |-> None, refresh_token |-> None,
     access_token |-> None, access_token_expires |-> NoIso,
     user_data |-> None]

\* the UTC offset (loc.timeZone[UTC_OFFSET], here in seconds) of location l
TimeZoneOffset(l) == l

\* the UTC offsets of locations and of the local time zone tried
LocOffsets == {0 - 1, 0, 1}

HaOffsets == {0, 1}

\* async_setup_entry has created nothing yet and has not returned
SetupRunning ==
    [result |-> "running", coordinator |-> FALSE, platforms |-> FALSE,
     services |-> FALSE]

\* async_setup_entry returned False after login() failed
SetupFailed == [SetupRunning EXCEPT !.result = "failed"]

\* async_setup_entry returned True: the coordinator exists, the platforms
\* are being loaded and the services are registered
SetupDone ==
    [result |-> "ok", coordinator |-> TRUE, platforms |-> TRUE,
     services |-> TRUE]

\* an empty dict {}
EmptyDict == [k \in {} |-> 0]

\* EvoChild._schedule = {}: no "DailySchedules"
NoSchedule == [isNone |-> FALSE, days |-> <<>>]

\* the setpoints property was not read yet
NotRead == [state |-> "unread", value |-> EmptyDict]

VARIABLES
    phase,       \* lifecycle of the broker: constructed, loaded, loggedin,
                 \* started, failed
    loc_idx,     \* EvoBroker.loc_idx (entry.data[CONF_LOCATION_IDX])
    v1_loc,      \* the legacy API's default location: the account's first
    store,       \* the persisted record (Store), None when nothing is stored
    tokens,      \* EvoBroker._tokens
    session_id,  \* EvoBroker._session_id
    client,      \* EvoBroker.client (primary API), None before login()
    client_v1,   \* EvoBroker.client_v1 (legacy API), None when absent/disabled
    loc,         \* EvoBroker.loc: the id of the configured location
    status,      \* the status held by EvoBroker.loc after refresh_status()
    temps,       \* EvoBroker.temps
    pc,          \* where each task is suspended
    tok0,        \* local access_token of _update_v2_api_state, per task
    sid0,        \* per task, at the start of _update_v1_api_temps: its local
                 \* session_id (seen) and the client's session id (held)
    v2failed,    \* the task's primary refresh failed in its current run
    raised,      \* the task's last run ended with an unhandled error
    lastV1,      \* outcome of the legacy fetch that returned last
    tracking,    \* the interval timer is registered
    timers,      \* pending async_call_later(_update_v2_api_state)
    nRefresh,    \* primary refreshes started
    nV2Ok,       \* primary refreshes that succeeded
    nSent,       \* async_dispatcher_send(hass, DOMAIN) broadcasts
    setup,       \* async_setup_entry: its result and what it has created
    loc_utc_offset, \* EvoBroker.loc_utc_offset, in seconds
    ha_offset,   \* UTC offset of the local time zone of dt_util.now()
    now,         \* the current instant: clock ticks since a Monday 00:00 UTC
    schedule,    \* EvoChild._schedule
    setpoints,   \* EvoChild._setpoints
    returned,    \* what the last read of EvoChild.setpoints gave
    cpc,         \* where EvoChild.async_update is suspended: idle, fetching
    nUpdates,    \* device updates started
    nFetches,    \* schedule fetches started by device updates
    entry,       \* the config entry: how it was made, its options, its state
    coordinator, \* the EvoCoordinator of async_setup_entry
    due,         \* seconds until the coordinator's timer fires
    busy,        \* the callers now inside broker.async_update()
    api,         \* how the last call of call_client_api ended
    ents         \* the entities connected to the dispatcher

brokerVars == <<phase, loc_idx, v1_loc, store, tokens, session_id, client,
                client_v1, loc, status, temps, pc, tok0, sid0, v2failed,
                raised, lastV1, tracking, timers, nRefresh, nV2Ok, nSent,
                setup>>

childVars == <<ha_offset, now, schedule, setpoints, returned, cpc, nUpdates,
               nFetches>>

pollVars == <<entry, coordinator, due, busy>>

vars == <<brokerVars, loc_utc_offset, childVars, pollVars, api, ents>>

(* ---------------------- config entry and polling --------------------- *)

SCAN_INTERVAL_MINIMUM == 60

NoInterval == 0 - 1

NotArmed == 0 - 1

\* the scan intervals, in seconds, a user may write or type
OfferedIntervals ==
    {0, SCAN_INTERVAL_MINIMUM - 1, SCAN_INTERVAL_MINIMUM,
     SCAN_INTERVAL_MINIMUM + 1}

Callers == {"timer", "service"}

NoEntry ==
    [state |-> "none", source |-> None, has_interval |-> FALSE,
     scan_interval |-> NoInterval, flow |-> None, data_keys |-> {},
     location_asked |-> FALSE]

\* _CONFIG_KEYS, the keys of entry.data
ConfigKeys == {"username", "password", "location_idx"}

\* the fields of the credentials form
CredentialKeys == {"username", "password"}

(* ------------------------ entities and services ---------------------- *)

\* the entities: the controller, the zones and the DHW controller
Controller == 0

Zones == 1 .. NumZones

Dhw == NumZones + 1

Entities == {Controller} \cup Zones \cup {Dhw}

\* registry_entry.domain of an entity
DomainOf(e) == IF e = Dhw THEN "water_heater" ELSE "climate"

\* broker.tcs.systemId
SystemId == 0

\* EvoService members used by the service handlers
ZoneServices == {"SET_ZONE_OVERRIDE", "RESET_ZONE_OVERRIDE"}

SystemServices == {"SET_SYSTEM_MODE", "RESET_SYSTEM"}

\* nothing to deliver
NoMessage == [kind |-> "none", unique_id |-> 0 - 1, service |-> None]

\* async_dispatcher_send(hass, DOMAIN): a signal without payload
Signal == [kind |-> "signal", unique_id |-> 0 - 1, service |-> None]

\* async_dispatcher_send(hass, DOMAIN, payload)
Payload(uid, svc) == [kind |-> "payload", unique_id |-> uid, service |-> svc]

\* no service request was handled
NotHandled == [handler |-> None, service |-> None]

\* _attr_unique_id of each entity: the controller has the system's id, a
\* zone its own id or, when that is the system's id too, the same one
UniqueIds ==
    {u \in [Entities -> 0 .. (NumZones + 1)] :
        /\ u[Controller] = SystemId
        /\ u[Dhw] = Dhw
        /\ \A z \in Zones : u[z] \in {z, SystemId}}

\* the entities after async_added_to_hass, with the unique ids u
EntitiesWith(u) ==
    [e \in Entities |->
        [uid |-> u[e], inbox |-> NoMessage, handled |-> NotHandled,
         pending |-> FALSE]]

\* every entity has an id of its own
OwnIds == [e \in Entities |-> e]

\* call_client_api was not called yet
NoCall ==
    [out |-> None, update_state |-> FALSE, result |-> None, raised |-> FALSE]

\* no EvoBroker object
NoBroker == [constructed |-> FALSE, logged_in |-> FALSE]

\* an EvoBroker after __init__ alone: it has no client, loc or tcs
ConstructedBroker == [constructed |-> TRUE, logged_in |-> FALSE]

\* broker: the EvoBroker whose async_update is the update_method, which is
\* also the one handed to _setup_service_functions
NoCoordinator ==
    [exists |-> FALSE, update_interval |-> NoInterval, broker |-> NoBroker]

PollInit ==
    /\ ents = EntitiesWith(OwnIds)
    /\ entry = NoEntry
    /\ coordinator = NoCoordinator
    /\ due = NotArmed
    /\ busy = [c \in Callers |-> FALSE]

(* --------------------------- credential store ------------------------- *)

\* helpers.dt_local_to_aware: a naive local datetime as an aware one, here
\* in the form isoformat() prints it (local reading and UTC offset)
dt_local_to_aware(naive, haOff) == [naive |-> naive, off |-> haOff]

\* helpers.dt_aware_to_naive of a parsed aware datetime: the same instant
\* as a naive local datetime
dt_aware_to_naive(iso, haOff) == (iso.naive - iso.off) + haOff

\* the records the store may hold at construction: nothing, a record of this
\* account, a record of another account and a record without username
StoredRecords ==
    {NoRecord}
    \cup [exists : {TRUE}, username : {Username, "other", None},
          refresh_token : {"r1"}, access_token : {"a1"},
          access_token_expires : {dt_local_to_aware(ExpiresOf("a1"), 0)},
          user_data : {"s1"}]

\* a stored record without USER_DATA section; None stands for a section
\* without session id ({})
NoUserData == "absent"

\* records of this account that hold no legacy session id
SessionlessRecords ==
    [exists : {TRUE}, username : {Username},
     refresh_token : {"r1"}, access_token : {"a1"},
     access_token_expires : {dt_local_to_aware(ExpiresOf("a1"), 0)},
     user_data : {NoUserData, None}]

\* app_storage.pop(USER_DATA, {}).get(SZ_SESSION_ID)
SessionIdOf(user_data) ==
    IF user_data \in {NoUserData, None} THEN None ELSE user_data

\* a load that gives up the stored tokens when the session id is missing
LoadTokensNeedingSession(r, haOff) ==
    IF ~r.exists \/ r.username # Username \/ SessionIdOf(r.user_data) = None
    THEN [tokens |-> EmptyTokens, session_id |-> None]
    ELSE [tokens |->
            [refresh_token |-> r.refresh_token,
             access_token |-> r.access_token,
             access_token_expires |->
                dt_aware_to_naive(r.access_token_expires, haOff)],
          session_id |-> r.user_data]

\* load_auth_tokens whatever the stored username is
LoadTokensOfAnyUser(r, haOff) ==
    IF ~r.exists
    THEN [tokens |-> EmptyTokens, session_id |-> None]
    ELSE [tokens |->
            [refresh_token |-> r.refresh_token,
             access_token |-> r.access_token,
             access_token_expires |->
                dt_aware_to_naive(r.access_token_expires, haOff)],
          session_id |-> r.user_data]

\* EvoBroker.load_auth_tokens: the (_tokens, _session_id) read from record r
LoadTokens(r, haOff) ==
    IF ~r.exists \/ r.username # Username
    THEN [tokens |-> EmptyTokens, session_id |-> None]
    ELSE [tokens |->
            [refresh_token |-> r.refresh_token,
             access_token |-> r.access_token,
             access_token_expires |->
                IF r.access_token_expires # NoIso
                THEN dt_aware_to_naive(r.access_token_expires, haOff)
                ELSE NoExpiry],
          session_id |-> SessionIdOf(r.user_data)]

\* save_auth_tokens that writes the naive expiry as if it were UTC
SavedRecordNaive(c, c1, haOff) ==
    [exists |-> TRUE,
     username |-> Username,
     refresh_token |-> c.refresh_token,
     access_token |-> c.access_token,
     access_token_expires |-> [naive |-> c.access_token_expires, off |-> 0],
     user_data |-> IF c1.exists THEN c1.broker_sid ELSE None]

\* EvoBroker.save_auth_tokens: the record written for clients c and c1
SavedRecord(c, c1, haOff) ==
    [exists |-> TRUE,
     username |-> Username,
     refresh_token |-> c.refresh_token,
     access_token |-> c.access_token,
     access_token_expires |-> dt_local_to_aware(c.access_token_expires, haOff),
     user_data |-> IF c1.exists THEN c1.broker_sid ELSE None]

(* ----------------------------- construction --------------------------- *)

BrokerInit ==
    /\ phase = "constructed"
    /\ loc_idx \in LocIdxs
    /\ v1_loc = 0
    /\ store \in StoredRecords
    /\ tokens = EmptyTokens
    /\ session_id = None
    /\ client = NoClient
    /\ client_v1 = NoClientV1
    /\ loc = NoLoc
    /\ status = NoStatus
    /\ temps = EmptyTemps
    /\ pc = [t \in Tasks |-> "idle"]
    /\ tok0 = [t \in Tasks |-> None]
    /\ sid0 = [t \in Tasks |-> NoSessionSeen]
    /\ v2failed = [t \in Tasks |-> FALSE]
    /\ raised = [t \in Tasks |-> FALSE]
    /\ lastV1 = None
    /\ tracking = FALSE
    /\ timers = 0
    /\ nRefresh = 0
    /\ nV2Ok = 0
    /\ nSent = 0
    /\ setup = SetupRunning
    /\ api = NoCall

\* EvoChild.__init__: no schedule, no setpoints
ChildInit ==
    /\ schedule = NoSchedule
    /\ setpoints = EmptyDict
    /\ returned = NotRead
    /\ cpc = "idle"
    /\ nUpdates = 0
    /\ nFetches = 0

Init ==
    /\ BrokerInit
    /\ loc_utc_offset = 0
    /\ ha_offset = 0
    /\ now = 0
    /\ ChildInit
    /\ PollInit

(* ------------------------------- helpers ------------------------------ *)

\* Python list indexing seq[idx] of a list of n entries: IndexError unless
\* -n <= idx < n; a negative index counts from the end
PyIndexOk(idx, n) == (0 - n) <= idx /\ idx < n

PyIndex(idx, n) == IF idx < 0 THEN idx + n ELSE idx

\* get_session_id(client_v1): the session id of the client's user_data
get_session_id(c1) == IF c1.exists THEN c1.user_sid ELSE None

\* a guard that fetches whether or not the legacy client is still there
LegacyEnabledAlways(c1) == TRUE

\* the guard of async_update: `if self.client_v1:`
LegacyEnabled(c1) == c1.exists

\* self.client_v1 after `except ev1.InvalidSchema`
ClientV1AfterInvalidSchema(c1) == NoClientV1

\* self.temps after `except ev1.InvalidSchema`: the handler does not touch it
TempsAfterInvalidSchema(tp) == tp

\* self.temps after `except ev1.RequestFailed`
TempsAfterRequestFailed(tp) == EmptyTemps

\* a request failure handled as fatal, like a schema mismatch
ClientV1DroppedAfterRequestFailed(c1) == NoClientV1

\* self.client_v1 after `except ev1.RequestFailed`: the handler keeps it
ClientV1AfterRequestFailed(c1) == c1

\* the else branch without its comparison of the two location ids
LocationNeverMismatch(v1l, l) == FALSE

\* the else branch: str(self.client_v1.location_id) != self.loc.locationId
LocationMismatch(v1l, l) == v1l # l

\* self.temps built from a response: {str(i[SZ_ID]): i[SZ_TEMP] for i in temps}
TempsOfResponse(resp) == [d \in DOMAIN resp |-> resp[d]]

\* an update in place, entry by entry, that stops after the first entry
TempsMergedAfterSuccess(tp, resp) ==
    [d \in DOMAIN tp \cup DOMAIN resp |->
        IF d = "d1" \/ d \notin DOMAIN tp THEN resp[d] ELSE tp[d]]

\* self.temps after the else branch: one assignment of the map built from
\* the response
TempsAfterSuccess(tp, resp) == TempsOfResponse(resp)

\* the broadcast moved to the finally branch: sent on every outcome
SentAfterRefreshAlways(ok, n) == n + 1

\* the broadcast moved to the except branch: sent on failure only
SentAfterRefreshOnFailure(ok, n) == IF ok THEN n ELSE n + 1

\* broadcasts after a primary refresh: async_dispatcher_send in the else branch
SentAfterRefresh(ok, n) == IF ok THEN n + 1 ELSE n

\* the finally of _update_v2_api_state: access_token != self.client.access_token
TokenChanged(before, c) == before # c.access_token

\* the finally of _update_v1_api_temps
SessionChanged(before, c1) == c1.exists /\ before # c1.broker_sid

\* a read that takes whatever the map holds for the device, null included
current_temperature_any(tp, st, d) == IF d \in DOMAIN tp THEN tp[d] ELSE st[d]

\* EvoChild.current_temperature of device d
current_temperature(tp, st, d) ==
    IF d \in DOMAIN tp /\ tp[d] # NoTemp THEN tp[d] ELSE st[d]

(* ------------------------------ login, start -------------------------- *)

\* a legacy client built without the cached session id
ClientV1AtStartFresh(sid) ==
    [exists |-> TRUE, user_sid |-> None, broker_sid |-> None]

\* ev1.EvohomeClient(username, password, session_id=self._session_id, ...):
\* the client holds the session id given; its user_data is still empty
ClientV1AtStart(sid) ==
    [exists |-> TRUE, user_sid |-> None, broker_sid |-> sid]

\* EvoBroker.login, up to the return of `await self.load_auth_tokens()`
LoadAuthTokens ==
    /\ phase = "constructed"
    /\ LET ld == LoadTokens(store, ha_offset) IN
       /\ tokens' = ld.tokens
       /\ session_id' = ld.session_id
    /\ phase' = "loaded"
    /\ UNCHANGED <<loc_idx, v1_loc, store, client, client_v1, loc, status,
                   temps, pc, tok0, sid0, v2failed, raised, lastV1, tracking,
                   timers, nRefresh, nV2Ok, nSent>>
    /\ UNCHANGED <<setup, loc_utc_offset, childVars, pollVars, api, ents>>

\* a setup that goes on after a failed login
SetupAfterLoginIgnoringFailure(ok, st) == st

\* async_setup_entry after `await broker.login()`:
\* `except evo.AuthenticationFailed: return False`
SetupAfterLogin(ok, st) == IF ok THEN st ELSE SetupFailed

\* a login that saves the tokens whatever its outcome
StoreAfterLoginAlways(ok, old, new) == new

\* the store after login(): save_auth_tokens() is its last statement and
\* is not reached when it raises
StoreAfterLogin(ok, old, new) == IF ok THEN new ELSE old

\* EvoBroker.login, from the creation of the client to its end
Login ==
    /\ phase = "loaded"
    /\ \E authOk \in BOOLEAN, tk \in TokensAfter(tokens.access_token) :
         LET \* client.login() raises AuthenticationFailed, or the vendor
             \* accepts the tokens or issues new ones
             c == IF authOk THEN ClientWith(tk) ELSE ClientHolding(tokens)
             ok == authOk /\ PyIndexOk(loc_idx, NumLocs)
         IN  /\ client' = c
             /\ phase' = IF ok THEN "loggedin" ELSE "failed"
             /\ store' = StoreAfterLogin(ok, store,
                                         SavedRecord(c, client_v1, ha_offset))
             /\ setup' = SetupAfterLogin(ok, setup)
    /\ UNCHANGED <<loc_idx, v1_loc, tokens, session_id, client_v1, loc, status,
                   temps, pc, tok0, sid0, v2failed, raised, lastV1, tracking,
                   timers, nRefresh, nV2Ok, nSent>>
    /\ UNCHANGED <<loc_utc_offset, childVars, pollVars, api, ents>>

\* async_setup_entry after login() has returned: it creates the coordinator,
\* loads the platforms, registers the services and returns True
SetupEntryCompletes ==
    /\ phase \in {"loggedin", "failed"}
    /\ setup.result = "running"
    /\ setup' = SetupDone
    /\ UNCHANGED <<phase, loc_idx, v1_loc, store, tokens, session_id, client,
                   client_v1, loc, status, temps, pc, tok0, sid0, v2failed,
                   raised, lastV1, tracking, timers, nRefresh, nV2Ok, nSent>>
    /\ UNCHANGED <<loc_utc_offset, childVars, pollVars, api, ents>>

\* EvoBroker.start, up to the first await of its initial async_update()
Start ==
    /\ phase = "loggedin"
    /\ setup.result = "ok"
    /\ loc' = PyIndex(loc_idx, NumLocs)
    /\ loc_utc_offset' = TimeZoneOffset(loc')
    /\ client_v1' = ClientV1AtStart(session_id)
    /\ store' = SavedRecord(client, client_v1', ha_offset)
    /\ phase' = "started"
    /\ tok0' = [tok0 EXCEPT !["tick"] = client.access_token]
    /\ pc' = [pc EXCEPT !["tick"] = "v2_await"]
    /\ nRefresh' = nRefresh + 1
    /\ UNCHANGED <<loc_idx, v1_loc, tokens, session_id, client, status, temps,
                   sid0, v2failed, raised, lastV1, tracking, timers, nV2Ok,
                   nSent>>
    /\ UNCHANGED <<setup, childVars, pollVars, api, ents>>

(* ------------------------------ update cycle -------------------------- *)

\* a run of task t ends; err: with an unhandled error.  start() registers
\* the interval timer once its initial async_update() has returned.
Finish(t, err) ==
    /\ pc' = [pc EXCEPT ![t] = "idle"]
    /\ raised' = [raised EXCEPT ![t] = err]
    /\ tracking' = (tracking \/ (t = "tick" /\ ~err))
    /\ tok0' = [tok0 EXCEPT ![t] = None]
    /\ sid0' = [sid0 EXCEPT ![t] = NoSessionSeen]
    /\ v2failed' = [v2failed EXCEPT ![t] = FALSE]

\* EvoBroker.async_update is entered by task t
StartCycle(t) ==
    /\ phase = "started"
    /\ pc[t] = "idle"
    /\ nRefresh < MaxRefresh
    /\ tok0' = [tok0 EXCEPT ![t] = client.access_token]
    /\ pc' = [pc EXCEPT ![t] = "v2_await"]
    /\ raised' = [raised EXCEPT ![t] = FALSE]
    /\ v2failed' = [v2failed EXCEPT ![t] = FALSE]
    /\ nRefresh' = nRefresh + 1
    /\ UNCHANGED <<phase, loc_idx, v1_loc, store, tokens, session_id, client,
                   client_v1, loc, status, temps, sid0, lastV1, tracking,
                   timers, nV2Ok, nSent>>
    /\ UNCHANGED <<setup, loc_utc_offset, childVars, pollVars, api, ents>>

\* the listeners a coordinator holds once EvoCoordinator.__init__ has run,
\* before any entity has subscribed to it
CoordinatorWithoutListener == {}

CoordinatorListeners == {"noop"}

\* the periodic refresh is re-armed after a cycle only while there is a
\* listener
ScheduleRefresh(listeners) == listeners # {}

\* the interval timer fires
IntervalTick ==
    /\ tracking
    /\ ScheduleRefresh(CoordinatorListeners)
    /\ StartCycle("tick")

\* the 'refresh now' service: force_refresh awaits broker.async_update()
ForceRefresh == StartCycle("svc")

\* how the awaited client API call ends: with its result, or by raising
\* evo.RequestFailed
ApiOutcomes == {"ok", "RequestFailed"}

\* what a client API call that succeeds returns
ApiResult == "result"

\* handle_exception(err) for a RequestFailed: the error is logged
handle_exception(err) == "logged"

\* what call_client_api hands to its caller
CallOutcome(out, update_state) ==
    [out |-> out,
     update_state |-> update_state,
     result |-> IF out = "RequestFailed" THEN None ELSE ApiResult,
     raised |-> out = "RequestFailed" /\ handle_exception(out) = "raised"]

\* a call that schedules the refresh before it awaits the client API
TimersAfterCallEager(out, update_state, n) ==
    IF update_state THEN n + 1 ELSE n

\* the pending delayed refreshes after a call: async_call_later is reached
\* only when the await did not raise and update_state is set
TimersAfterCall(out, update_state, n) ==
    IF out = "ok" /\ update_state THEN n + 1 ELSE n

\* EvoBroker.call_client_api, called by an entity, has returned: what it
\* does to the broker
ClientApiReturns(out, update_state) ==
    /\ phase = "started"
    /\ TimersAfterCall(out, update_state, timers) <= MaxTimers
    /\ timers' = TimersAfterCall(out, update_state, timers)
    /\ UNCHANGED <<phase, loc_idx, v1_loc, store, tokens, session_id, client,
                   client_v1, loc, status, temps, pc, tok0, sid0, v2failed,
                   raised, lastV1, tracking, nRefresh, nV2Ok, nSent>>
    /\ UNCHANGED <<setup, loc_utc_offset, childVars, pollVars, ents>>

\* a call whose outcome the caller drops
CallClientApi ==
    \E out \in ApiOutcomes, update_state \in BOOLEAN :
        /\ ClientApiReturns(out, update_state)
        /\ UNCHANGED api

\* a call whose outcome the caller keeps
CallClientApiFor(out, update_state) ==
    /\ ClientApiReturns(out, update_state)
    /\ api' = CallOutcome(out, update_state)

EntityCall ==
    \E out \in ApiOutcomes, update_state \in BOOLEAN :
        CallClientApiFor(out, update_state)

\* the delayed _update_v2_api_state scheduled by call_client_api starts
LaterFire ==
    /\ timers > 0
    /\ pc["later"] = "idle"
    /\ nRefresh < MaxRefresh
    /\ timers' = timers - 1
    /\ tok0' = [tok0 EXCEPT !["later"] = client.access_token]
    /\ pc' = [pc EXCEPT !["later"] = "v2_await"]
    /\ raised' = [raised EXCEPT !["later"] = FALSE]
    /\ v2failed' = [v2failed EXCEPT !["later"] = FALSE]
    /\ nRefresh' = nRefresh + 1
    /\ UNCHANGED <<phase, loc_idx, v1_loc, store, tokens, session_id, client,
                   client_v1, loc, status, temps, sid0, lastV1, tracking,
                   nV2Ok, nSent>>
    /\ UNCHANGED <<setup, loc_utc_offset, childVars, pollVars, api, ents>>

\* _update_v2_api_state has returned in task t: async_update goes on with
\* `if self.client_v1: await self._update_v1_api_temps()`, which runs to
\* its await of get_temperatures()
AfterV2(t, failed) ==
    IF t \in CycleTasks /\ LegacyEnabled(client_v1)
    THEN /\ sid0' = [sid0 EXCEPT ![t] =
                        [seen |-> get_session_id(client_v1),
                         held |-> client_v1.broker_sid]]
         /\ pc' = [pc EXCEPT ![t] = "v1_await"]
         /\ UNCHANGED <<raised, tracking, tok0>>
         /\ v2failed' = [v2failed EXCEPT ![t] = failed]
    ELSE Finish(t, FALSE)

\* loc.refresh_status() returns in task t (ok) or raises RequestFailed;
\* the client may hold a new access token tk afterwards
V2Return(t, ok, tk, blob) ==
    /\ pc[t] = "v2_await"
    /\ client' = ClientWith(tk)
    /\ status' = IF ok THEN blob ELSE status
    /\ nSent' = SentAfterRefresh(ok, nSent)
    /\ nV2Ok' = IF ok THEN nV2Ok + 1 ELSE nV2Ok
    /\ IF TokenChanged(tok0[t], client')
       THEN /\ store' = SavedRecord(client', client_v1, ha_offset)
            /\ pc' = [pc EXCEPT ![t] = "v2_save"]
            /\ v2failed' = [v2failed EXCEPT ![t] = ~ok]
            /\ UNCHANGED <<sid0, raised, tracking, tok0>>
       ELSE /\ UNCHANGED store
            /\ AfterV2(t, ~ok)
    /\ UNCHANGED <<phase, loc_idx, v1_loc, tokens, session_id, client_v1, loc,
                   temps, lastV1, timers, nRefresh>>
    /\ UNCHANGED <<setup, loc_utc_offset, childVars, pollVars, api, ents>>

PrimaryReturns ==
    \E t \in Tasks, ok \in BOOLEAN, tk \in TokensAfter(client.access_token),
       blob \in StatusBlobs :
        V2Return(t, ok, tk, blob)

\* the save_auth_tokens() awaited in the finally of _update_v2_api_state
\* has completed
V2SaveDone ==
    \E t \in Tasks :
        /\ pc[t] = "v2_save"
        /\ AfterV2(t, v2failed[t])
        /\ UNCHANGED <<phase, loc_idx, v1_loc, store, tokens, session_id,
                       client, client_v1, loc, status, temps, lastV1, timers,
                       nRefresh, nV2Ok, nSent, setup, loc_utc_offset,
                       childVars, pollVars, api, ents>>

\* client_v1.get_temperatures() returns in task t: out is "ok" (with the
\* response resp), "InvalidSchema" or "RequestFailed"; sid is the session
\* id the legacy client holds afterwards ("keep": the call did not log in)
V1Return(t, out, resp, sid) ==
    /\ pc[t] = "v1_await"
    /\ LET c1 == IF client_v1.exists /\ sid # "keep"
                 THEN [exists |-> TRUE, user_sid |-> sid, broker_sid |-> sid]
                 ELSE client_v1
           \* the else branch dereferences self.client_v1
           attrErr == out = "ok" /\ ~c1.exists
           mismatch == out = "ok" /\ c1.exists /\ LocationMismatch(v1_loc, loc)
       IN
       /\ client_v1' =
            CASE out = "InvalidSchema" -> ClientV1AfterInvalidSchema(c1)
              [] out = "RequestFailed" -> ClientV1AfterRequestFailed(c1)
              [] mismatch -> NoClientV1
              [] OTHER -> c1
       /\ temps' =
            CASE out = "InvalidSchema" -> TempsAfterInvalidSchema(temps)
              [] out = "RequestFailed" -> TempsAfterRequestFailed(temps)
              [] attrErr \/ mismatch -> temps
              [] OTHER -> TempsAfterSuccess(temps, resp)
       /\ lastV1' =
            CASE attrErr -> "AttributeError"
              [] mismatch -> "mismatch"
              [] OTHER -> out
       /\ IF SessionChanged(sid0[t].seen, client_v1')
          THEN /\ store' = SavedRecord(client, client_v1', ha_offset)
               /\ pc' = [pc EXCEPT ![t] = "v1_save"]
               /\ UNCHANGED <<raised, tracking, tok0, sid0, v2failed>>
          ELSE /\ UNCHANGED store
               /\ Finish(t, attrErr)
    /\ UNCHANGED <<phase, loc_idx, v1_loc, tokens, session_id, client, loc,
                   status, timers, nRefresh, nV2Ok, nSent>>
    /\ UNCHANGED <<setup, loc_utc_offset, childVars, pollVars, api, ents>>

LegacyReturns ==
    \E t \in CycleTasks, out \in {"ok", "InvalidSchema", "RequestFailed"},
       resp \in TempResponses(v1_loc),
       sid \in SessionsAfter(client_v1.broker_sid) \cup {"keep"} :
        V1Return(t, out, resp, sid)

\* the save_auth_tokens() awaited in the finally of _update_v1_api_temps
\* has completed
V1SaveDone ==
    \E t \in CycleTasks :
        /\ pc[t] = "v1_save"
        /\ Finish(t, FALSE)
        /\ UNCHANGED <<phase, loc_idx, v1_loc, store, tokens, session_id,
                       client, client_v1, loc, status, temps, lastV1, timers,
                       nRefresh, nV2Ok, nSent, setup, loc_utc_offset,
                       childVars, pollVars, api, ents>>

Next ==
    \/ LoadAuthTokens
    \/ Login
    \/ SetupEntryCompletes
    \/ Start
    \/ IntervalTick
    \/ ForceRefresh
    \/ CallClientApi
    \/ LaterFire
    \/ PrimaryReturns
    \/ V2SaveDone
    \/ LegacyReturns
    \/ V1SaveDone

Spec == Init /\ [][Next]_vars

\* the interval-driven cycles and the 'refresh now' service under the event
\* loop's scheduling: an armed interval timer fires, and every awaited
\* remote call or store write completes
NextLive ==
    \/ LoadAuthTokens
    \/ Login
    \/ SetupEntryCompletes
    \/ Start
    \/ IntervalTick
    \/ ForceRefresh
    \/ PrimaryReturns
    \/ V2SaveDone
    \/ LegacyReturns
    \/ V1SaveDone

SpecLive ==
    /\ Init
    /\ [][NextLive]_vars
    /\ WF_vars(IntervalTick)
    /\ WF_vars(PrimaryReturns)
    /\ WF_vars(V2SaveDone)
    /\ WF_vars(LegacyReturns)
    /\ WF_vars(V1SaveDone)

\* the run of task t is cancelled at the await where it is suspended: the
\* finally of the call it is in runs, and CancelledError goes to the caller
Abandon ==
    \E t \in Tasks :
        /\ pc[t] # "idle"
        /\ store' =
             CASE pc[t] = "v2_await" /\ TokenChanged(tok0[t], client) ->
                    SavedRecord(client, client_v1, ha_offset)
               [] pc[t] = "v1_await"
                  /\ SessionChanged(sid0[t].seen, client_v1) ->
                    SavedRecord(client, client_v1, ha_offset)
               [] OTHER -> store
        /\ Finish(t, TRUE)
        /\ UNCHANGED <<phase, loc_idx, v1_loc, tokens, session_id, client,
                       client_v1, loc, status, temps, lastV1, timers,
                       nRefresh, nV2Ok, nSent, setup, loc_utc_offset,
                       childVars, pollVars, api, ents>>

NextAbandon ==
    \/ NextLive
    \/ Abandon

\* the interval-driven cycles and the 'refresh now' service, with cycles
\* that may be abandoned while suspended
SpecAbandon == Init /\ [][NextAbandon]_vars

\* the broker with the entities' calls and their delayed refreshes, and
\* without update cycles after the first
NextApi ==
    \/ LoadAuthTokens
    \/ Login
    \/ SetupEntryCompletes
    \/ Start
    \/ EntityCall
    \/ LaterFire
    \/ PrimaryReturns
    \/ V2SaveDone
    \/ LegacyReturns
    \/ V1SaveDone

SpecApi == Init /\ [][NextApi]_vars

(* ========================= schedule projection ======================== *)

\* Times.  An instant is a number of clock ticks since a Monday 00:00 UTC;
\* a second has SubSec ticks and a day DayLen seconds.  A naive datetime is
\* a number of seconds since that Monday; an aware datetime printed by
\* isoformat() is a naive local datetime with its UTC offset.

TicksPerDay == DayLen * SubSec

\* dt_util.now(): the local naive clock reading at instant t, in ticks
LocalTicks(t, haOff) == t + haOff * SubSec

\* the local calendar date of dt_util.now(), as a day number
LocalDate(t, haOff) == LocalTicks(t, haOff) \div TicksPerDay

\* day_time.weekday(): 0 is Monday
Weekday(t, haOff) == LocalDate(t, haOff) % 7

\* the local time of day of dt_util.now(), in ticks
LocalTickOfDay(t, haOff) == LocalTicks(t, haOff) % TicksPerDay

\* day_time.strftime("%H:%M:%S"): the time of day cut to whole seconds.
\* Strings of this fixed format are ordered as the seconds they denote.
TimeOfDayStr(t, haOff) == LocalTickOfDay(t, haOff) \div SubSec

\* dt_util.parse_datetime(f"{sp_date}T{TimeOfDay}"): a naive datetime
ParseNaive(date, tod) == date * DayLen + tod

\* _dt_evo_to_aware followed by isoformat(): the naive datetime taken as
\* UTC, minus the location's UTC offset, shown in the local time zone
DtEvoToAwareIso(naive, locOff, haOff) ==
    [naive |-> (naive - locOff) + haOff, off |-> haOff]

\* dt_util.parse_datetime of an isoformat() string: the instant, in ticks
IsoInstant(iso) == (iso.naive - iso.off) * SubSec

\* Python seq[i] of a list: IndexError unless -n <= i < n
PyHas(seq, i) == PyIndexOk(i, Len(seq))

PyGet(seq, i) == seq[PyIndex(i, Len(seq)) + 1]

\* the loop over today's switchpoints: sp_idx is the index of the last of
\* the leading switchpoints with time_of_day > TimeOfDay, -1 when none
SpIdx(sps, tod) ==
    LET ks == {k \in 0 .. Len(sps) :
                 \A j \in 1 .. k : tod > sps[j].TimeOfDay}
    IN  (CHOOSE k \in ks : \A m \in ks : m <= k) - 1

\* 'this' always taken from today
ThisSpDayToday(sp_idx) == 0

\* this_sp_day = -1 if sp_idx == -1 else 0
ThisSpDay(sp_idx) == IF sp_idx = 0 - 1 THEN 0 - 1 ELSE 0

\* next_sp_day = 1 if sp_idx + 1 == len(day["Switchpoints"]) else 0
NextSpDay(sp_idx, sps) == IF sp_idx + 1 = Len(sps) THEN 1 ELSE 0

\* One turn of the loop over ("this", "next"): the entries it writes to
\* self._setpoints and the error that ends it ("none", "IndexError" or
\* "KeyError").  The *_sp_from entry is written before the value is read.
ProjectOne(days, t, key, offset, idx, locOff, haOff) ==
    LET dayIdx == (Weekday(t, haOff) + offset) % 7 IN
    IF ~PyHas(days, dayIdx) \/ ~PyHas(PyGet(days, dayIdx), idx)
    THEN [err |-> "IndexError", writes |-> EmptyDict]
    ELSE
      LET sp == PyGet(PyGet(days, dayIdx), idx)
          sp_date == LocalDate(t, haOff) + offset
          from == DtEvoToAwareIso(ParseNaive(sp_date, sp.TimeOfDay),
                                  locOff, haOff)
          wFrom == IF key = "this" THEN [this_sp_from |-> from]
                   ELSE [next_sp_from |-> from]
      IN
      CASE sp.kind = "heatSetpoint" ->
             [err |-> "none",
              writes |-> wFrom @@ (IF key = "this"
                                   THEN [this_sp_temp |-> sp.value]
                                   ELSE [next_sp_temp |-> sp.value])]
        [] sp.kind = "DhwState" ->
             [err |-> "none",
              writes |-> wFrom @@ (IF key = "this"
                                   THEN [this_sp_state |-> sp.value]
                                   ELSE [next_sp_state |-> sp.value])]
        [] OTHER -> [err |-> "KeyError", writes |-> wFrom]

\* a read without schedule that hands out the cached projection
ReturnedCacheWithoutSchedule(cache) == cache

\* `return {}`: what the read gives when there are no DailySchedules
ReturnedWithoutSchedule(cache) == EmptyDict

\* an IndexError handler that keeps what was written so far
CacheKeptAfterIndexError(cache) == cache

\* `except IndexError: self._setpoints = {}`
CacheAfterIndexError(cache) == EmptyDict

\* EvoChild.setpoints read at instant t: ret is what the read gives (state
\* "ok" with the dict, or "raised"), cache is self._setpoints afterwards
Setpoints(sched, cache, t, locOff, haOff) ==
    IF sched.isNone
    THEN \* None.get: AttributeError
         [ret |-> [state |-> "raised", value |-> EmptyDict], cache |-> cache]
    ELSE IF sched.days = <<>>
    THEN [ret |-> [state |-> "ok", value |-> ReturnedWithoutSchedule(cache)],
          cache |-> cache]
    ELSE
      LET days == sched.days
          dow == Weekday(t, haOff)
          failed(c) == [ret |-> [state |-> "ok",
                                 value |-> CacheAfterIndexError(c)],
                        cache |-> CacheAfterIndexError(c)]
      IN
      IF ~PyHas(days, dow) THEN failed(cache)
      ELSE
        LET sps == PyGet(days, dow)
            sp_idx == SpIdx(sps, TimeOfDayStr(t, haOff))
            this_sp_day == ThisSpDay(sp_idx)
            next_sp_day == NextSpDay(sp_idx, sps)
            r1 == ProjectOne(days, t, "this", this_sp_day, sp_idx,
                             locOff, haOff)
            c1 == r1.writes @@ cache
            r2 == ProjectOne(days, t, "next", next_sp_day,
                             (sp_idx + 1) * (1 - next_sp_day), locOff, haOff)
            c2 == r2.writes @@ c1
        IN
        CASE r1.err = "IndexError" -> failed(cache)
          [] r1.err = "KeyError" ->
               [ret |-> [state |-> "raised", value |-> EmptyDict],
                cache |-> c1]
          [] r2.err = "IndexError" -> failed(c1)
          [] r2.err = "KeyError" ->
               [ret |-> [state |-> "raised", value |-> EmptyDict],
                cache |-> c2]
          [] OTHER -> [ret |-> [state |-> "ok", value |-> c2], cache |-> c2]

\* The schedules tried.  A day pattern is a list of at most MaxSp times of
\* day in non-decreasing order; the even weekdays follow one pattern and the
\* odd ones another, one of the two with at most one switchpoint.  The
\* setpoint of a switchpoint names its day and place.
DayPatterns ==
    {p \in UNION {[1 .. n -> 0 .. (DayLen - 1)] : n \in 0 .. MaxSp} :
        \A j \in 1 .. (Len(p) - 1) : p[j] <= p[j + 1]}

ShortPatterns == {p \in DayPatterns : Len(p) <= 1}

DayOf(p, d) ==
    [j \in 1 .. Len(p) |->
        [TimeOfDay |-> p[j], kind |-> "heatSetpoint", value |-> 10 * d + j]]

WeekOf(p, q) ==
    [isNone |-> FALSE,
     days |-> [n \in 1 .. 7 |->
                 DayOf(IF (n - 1) % 2 = 0 THEN p ELSE q, n - 1)]]

Schedules ==
    {WeekOf(p, q) : p \in DayPatterns, q \in ShortPatterns}
    \cup {WeekOf(q, p) : p \in DayPatterns, q \in ShortPatterns}

\* the instants of one week
Instants == 0 .. (7 * TicksPerDay - 1)

\* a started broker and a child that holds a schedule, at some instant
InitProj ==
    /\ BrokerInit
    /\ loc_idx = 0
    /\ store = NoRecord
    /\ loc_utc_offset \in LocOffsets
    /\ ha_offset \in HaOffsets
    /\ now \in Instants
    /\ schedule \in Schedules
    /\ setpoints = EmptyDict
    /\ returned = NotRead
    /\ cpc = "idle"
    /\ nUpdates = 0
    /\ nFetches = 0
    /\ PollInit

\* the setpoints property is read (EvoChild.async_update, line 434)
ReadSetpoints ==
    /\ returned.state = "unread"
    /\ LET r == Setpoints(schedule, setpoints, now, loc_utc_offset, ha_offset)
       IN  /\ setpoints' = r.cache
           /\ returned' = r.ret
    /\ UNCHANGED <<api, ents, pollVars, brokerVars, loc_utc_offset, ha_offset, now, schedule, cpc,
                   nUpdates, nFetches>>

NextProj == ReadSetpoints

SpecProj == InitProj /\ [][NextProj]_vars

(* ============================ device update =========================== *)

\* the default of self._setpoints.get("next_sp_from", "2000-01-01T00:00:00+00:00"):
\* an instant before every instant tried
Year2000 == 0 - (7 * TicksPerDay)

\* next_sp_from_dt of EvoChild.async_update, as an instant
NextSpFromDt(cache) ==
    IF "next_sp_from" \in DOMAIN cache
    THEN IsoInstant(cache.next_sp_from)
    ELSE Year2000

\* a trigger that waits until the cached instant has passed
FetchDueStrict(t, cache) == t > NextSpFromDt(cache)

\* `if next_sp_from_dt is None or dt_util.now() >= next_sp_from_dt:`
FetchDue(t, cache) == t >= NextSpFromDt(cache)

\* a schedule whose "DailySchedules" has fewer than 7 entries
Truncated(sched) == [sched EXCEPT !.days = SubSeq(sched.days, 1, 3)]

\* get_schedule() failed with RequestFailed: call_client_api returned None
ScheduleIsNone == [isNone |-> TRUE, days |-> <<>>]

\* days with one switchpoint, at the first or at the last second of the day
EdgePatterns == {p \in ShortPatterns : Len(p) = 1 /\ p[1] \in {0, DayLen - 1}}

\* the state a hot-water switchpoint of day d carries as its "DhwState":
\* 1 stands for "On" and 0 for "Off"
DhwStateOf(d) == d % 2

\* the schedule sched with every switchpoint carrying a "DhwState", as
\* those of a hot-water device do, in place of a "heatSetpoint"
AsDhw(sched) ==
    [sched EXCEPT !.days =
        [n \in 1 .. Len(sched.days) |->
            [j \in 1 .. Len(sched.days[n]) |->
                [TimeOfDay |-> sched.days[n][j].TimeOfDay,
                 kind |-> "DhwState",
                 value |-> DhwStateOf(n)]]]]

\* the schedule sched with switchpoints that carry neither of the two
Valueless(sched) ==
    [sched EXCEPT !.days =
        [n \in 1 .. Len(sched.days) |->
            [j \in 1 .. Len(sched.days[n]) |->
                [TimeOfDay |-> sched.days[n][j].TimeOfDay,
                 kind |-> "neither",
                 value |-> 0]]]]

\* What the await of _update_schedule may leave in self._schedule: a week
\* of days with one switchpoint each (with a temperature, with an on/off
\* state, or with neither), or with every other day empty, or with empty
\* days only; a week cut short; no daily schedules
\* ({'DailySchedules': []}, or {} after InvalidSchedule); or None.
FetchedSchedules ==
    {WeekOf(p, p) : p \in EdgePatterns}
    \cup {AsDhw(WeekOf(p, p)) : p \in EdgePatterns}
    \cup {Valueless(WeekOf(p, p)) : p \in EdgePatterns}
    \cup {WeekOf(p, <<>>) : p \in EdgePatterns}
    \cup {WeekOf(<<>>, p) : p \in EdgePatterns}
    \cup {Truncated(WeekOf(p, p)) : p \in EdgePatterns}
    \cup {WeekOf(<<>>, <<>>), NoSchedule, ScheduleIsNone}

\* a started broker and a child just constructed, at some instant
InitChild ==
    /\ BrokerInit
    /\ loc_idx = 0
    /\ store = NoRecord
    /\ loc_utc_offset \in LocOffsets
    /\ ha_offset \in HaOffsets
    /\ now \in Instants
    /\ ChildInit
    /\ PollInit

\* `self._device_state_attrs = {"setpoints": self.setpoints}` with the
\* schedule sched
ReadWith(sched) ==
    LET r == Setpoints(sched, setpoints, now, loc_utc_offset, ha_offset)
    IN  /\ setpoints' = r.cache
        /\ returned' = r.ret

\* time passes: the clock ticks
Advance ==
    /\ now + 1 \in Instants
    /\ now' = now + 1
    /\ UNCHANGED <<api, ents, pollVars, brokerVars, loc_utc_offset, ha_offset, schedule, setpoints,
                   returned, cpc, nUpdates, nFetches>>

\* EvoChild.async_update is called: it runs to the await in
\* _update_schedule, or to its end when no fetch is due
ChildUpdate ==
    /\ cpc = "idle"
    /\ nUpdates < MaxUpdates
    /\ nUpdates' = nUpdates + 1
    /\ IF FetchDue(now, setpoints)
       THEN /\ cpc' = "fetching"
            /\ nFetches' = nFetches + 1
            /\ UNCHANGED <<schedule, setpoints, returned>>
       ELSE /\ ReadWith(schedule)
            /\ UNCHANGED <<schedule, cpc, nFetches>>
    /\ UNCHANGED <<api, ents, pollVars, brokerVars, loc_utc_offset, ha_offset, now>>

\* how the get_schedule() awaited through call_client_api may end
FetchOutcomes == {"ok", "InvalidSchedule", "RequestFailed"}

\* self._schedule after _update_schedule: call_client_api absorbs
\* RequestFailed and returns None, which is assigned; InvalidSchedule
\* gives {}; otherwise the schedule got
ScheduleAfterFetch(out, got) ==
    CASE out = "RequestFailed" -> ScheduleIsNone
      [] out = "InvalidSchedule" -> NoSchedule
      [] OTHER -> got

\* the await of _update_schedule returns with outcome out (and, when ok,
\* the schedule got); async_update reads the setpoints
FetchReturns(out, got) ==
    /\ cpc = "fetching"
    /\ schedule' = ScheduleAfterFetch(out, got)
    /\ ReadWith(schedule')
    /\ cpc' = "idle"
    /\ UNCHANGED <<api, ents, pollVars, brokerVars, loc_utc_offset, ha_offset, now, nUpdates,
                   nFetches>>

ScheduleReturns ==
    \E out \in FetchOutcomes, got \in FetchedSchedules \ {ScheduleIsNone} :
        FetchReturns(out, got)

NextChild ==
    \/ Advance
    \/ ChildUpdate
    \/ ScheduleReturns

SpecChild == InitChild /\ [][NextChild]_vars

(* ===================== credentials across a restart =================== *)

\* the credentials a running broker may hold when it saves them
HeldClients ==
    [exists : {TRUE}, refresh_token : {"r1", "r2"}, access_token : Tokens,
     access_token_expires : 0 .. DayLen]

HeldLegacyClients ==
    {NoClientV1}
    \cup [exists : {TRUE}, user_sid : {None},
          broker_sid : SessionIds \cup {None}]

\* a running broker with some credentials, over a store with any content
InitStore ==
    /\ phase = "started"
    /\ loc_idx = 0
    /\ v1_loc = 0
    /\ store \in StoredRecords \cup SessionlessRecords
    /\ tokens = EmptyTokens
    /\ session_id = None
    /\ client \in HeldClients
    /\ client_v1 \in HeldLegacyClients
    /\ loc = 0
    /\ status = NoStatus
    /\ temps = EmptyTemps
    /\ pc = [t \in Tasks |-> "idle"]
    /\ tok0 = [t \in Tasks |-> None]
    /\ sid0 = [t \in Tasks |-> NoSessionSeen]
    /\ v2failed = [t \in Tasks |-> FALSE]
    /\ raised = [t \in Tasks |-> FALSE]
    /\ lastV1 = None
    /\ tracking = FALSE
    /\ timers = 0
    /\ nRefresh = 0
    /\ nV2Ok = 0
    /\ nSent = 0
    /\ setup = SetupDone
    /\ api = NoCall
    /\ loc_utc_offset = 0
    /\ ha_offset \in HaOffsets
    /\ now = 0
    /\ ChildInit
    /\ PollInit

\* EvoBroker.save_auth_tokens
SaveAuthTokens ==
    /\ phase = "started"
    /\ store' = SavedRecord(client, client_v1, ha_offset)
    /\ phase' = "saved"
    /\ UNCHANGED <<loc_idx, v1_loc, tokens, session_id, client, client_v1, loc,
                   status, temps, pc, tok0, sid0, v2failed, raised, lastV1,
                   tracking, timers, nRefresh, nV2Ok, nSent>>
    /\ UNCHANGED <<setup, loc_utc_offset, childVars, pollVars, api, ents>>

\* EvoBroker.load_auth_tokens of the broker of the next process, configured
\* with the same username
LoadAfterRestart ==
    /\ phase = "saved"
    /\ LET ld == LoadTokens(store, ha_offset) IN
       /\ tokens' = ld.tokens
       /\ session_id' = ld.session_id
    /\ phase' = "reloaded"
    /\ UNCHANGED <<loc_idx, v1_loc, store, client, client_v1, loc, status,
                   temps, pc, tok0, sid0, v2failed, raised, lastV1, tracking,
                   timers, nRefresh, nV2Ok, nSent>>
    /\ UNCHANGED <<setup, loc_utc_offset, childVars, pollVars, api, ents>>

\* EvoBroker.load_auth_tokens of the next process when nothing was saved
\* in between: the record is loaded as it was found
LoadStored ==
    /\ phase = "started"
    /\ LET ld == LoadTokens(store, ha_offset) IN
       /\ tokens' = ld.tokens
       /\ session_id' = ld.session_id
    /\ phase' = "loadedstored"
    /\ UNCHANGED <<loc_idx, v1_loc, store, client, client_v1, loc, status,
                   temps, pc, tok0, sid0, v2failed, raised, lastV1, tracking,
                   timers, nRefresh, nV2Ok, nSent>>
    /\ UNCHANGED <<setup, loc_utc_offset, childVars, pollVars, api, ents>>

NextStore ==
    \/ SaveAuthTokens
    \/ LoadAfterRestart
    \/ LoadStored

SpecStore == InitStore /\ [][NextStore]_vars

(* ======================= config entry and polling ===================== *)

\* CONFIG_SCHEMA, which the YAML configuration has passed before
\* async_setup hands it to the import step
ConfigSchemaAccepts(v) == v >= SCAN_INTERVAL_MINIMUM

ValidScanIntervalAny(v) == TRUE

\* vol.All(cv.time_period, vol.Range(min=SCAN_INTERVAL_MINIMUM))
ValidScanInterval(v) == v >= SCAN_INTERVAL_MINIMUM

\* async_setup starts the one-off import of the YAML configuration, and
\* async_step_import makes the entry: every key that is not a credential
\* or the location index becomes an option, as it is
StepImport ==
    /\ entry.state = "none"
    /\ \E v \in OfferedIntervals :
         /\ ConfigSchemaAccepts(v)
         /\ entry' = [state |-> "not_loaded", source |-> "import",
                      has_interval |-> TRUE, scan_interval |-> v,
                      flow |-> "import", data_keys |-> ConfigKeys,
                      location_asked |-> FALSE]
    /\ UNCHANGED <<coordinator, due, busy>>
    /\ UNCHANGED <<brokerVars, loc_utc_offset, childVars, api, ents>>

\* async_step_location_idx(user_input): with an input it makes the entry
\* from that input, without options; only with None it shows its form
EntryOfLocationStep(input_keys) ==
    [state |-> "not_loaded", source |-> "user", has_interval |-> FALSE,
     scan_interval |-> NoInterval, flow |-> "user", data_keys |-> input_keys,
     location_asked |-> FALSE]

\* async_step_user .. async_step_user_credentials with credentials the
\* vendor accepts: `return await self.async_step_location_idx(user_input)`
\* hands the credentials input to the location step
StepUser ==
    /\ entry.state = "none"
    /\ entry' = EntryOfLocationStep(CredentialKeys)
    /\ UNCHANGED <<coordinator, due, busy>>
    /\ UNCHANGED <<brokerVars, loc_utc_offset, childVars, api, ents>>

\* EvoOptionsFlow.async_step_init with a user_input that passed the
\* form's schema: it becomes the entry's options
StepOptionsInit ==
    /\ entry.state # "none"
    /\ \E v \in OfferedIntervals :
         /\ ValidScanInterval(v)
         /\ entry' = [entry EXCEPT !.source = "options",
                                   !.has_interval = TRUE,
                                   !.scan_interval = v]
    /\ UNCHANGED <<coordinator, due, busy>>
    /\ UNCHANGED <<brokerVars, loc_utc_offset, childVars, api, ents>>

\* async_setup_entry up to its await of coordinator.async_refresh();
\* ok: broker.login() did not raise AuthenticationFailed
SetupEntry ==
    /\ entry.state = "not_loaded"
    /\ \E ok \in BOOLEAN :
         CASE ~(ConfigKeys \subseteq entry.data_keys) ->
                \* EvoBroker.__init__: entry.data[CONF_LOCATION_IDX]
                \* raises KeyError
                /\ entry' = [entry EXCEPT !.state = "setup_error"]
                /\ UNCHANGED <<coordinator, busy>>
           [] ~ok ->
                /\ entry' = [entry EXCEPT !.state = "setup_failed"]
                /\ UNCHANGED <<coordinator, busy>>
           [] ok /\ ~entry.has_interval ->
                \* entry.options[CONF_SCAN_INTERVAL] raises KeyError
                /\ entry' = [entry EXCEPT !.state = "setup_error"]
                /\ UNCHANGED <<coordinator, busy>>
           [] OTHER ->
                /\ entry' = [entry EXCEPT !.state = "refreshing"]
                \* `broker = EvoBroker(hass, entry)` after the login:
                \* the coordinator is bound to this second object
                /\ coordinator' = [exists |-> TRUE,
                                   update_interval |-> entry.scan_interval,
                                   broker |-> ConstructedBroker]
                /\ busy' = [busy EXCEPT !["timer"] = TRUE]
    /\ UNCHANGED due
    /\ UNCHANGED <<brokerVars, loc_utc_offset, childVars, api, ents>>

\* a refresh of the coordinator ends: the timer is armed for one
\* update_interval from now while there is a listener; the first refresh
\* is the one async_setup_entry awaits before it registers the services
RefreshDone ==
    /\ busy["timer"]
    /\ busy' = [busy EXCEPT !["timer"] = FALSE]
    /\ due' = IF ScheduleRefresh(CoordinatorListeners)
              THEN coordinator.update_interval ELSE NotArmed
    /\ entry' = IF entry.state = "refreshing"
                THEN [entry EXCEPT !.state = "loaded"] ELSE entry
    /\ UNCHANGED coordinator
    /\ UNCHANGED <<brokerVars, loc_utc_offset, childVars, api, ents>>

\* one second passes
TimePasses ==
    /\ due > 0
    /\ due' = due - 1
    /\ UNCHANGED <<entry, coordinator, busy>>
    /\ UNCHANGED <<brokerVars, loc_utc_offset, childVars, api, ents>>

\* the coordinator's timer fires: update_method = broker.async_update
TimerFires ==
    /\ coordinator.exists
    /\ due = 0
    /\ ~busy["timer"]
    /\ busy' = [busy EXCEPT !["timer"] = TRUE]
    /\ due' = NotArmed
    /\ UNCHANGED <<entry, coordinator>>
    /\ UNCHANGED <<brokerVars, loc_utc_offset, childVars, api, ents>>

DueResetByRefreshNow(d, c) == c.update_interval

\* force_refresh awaits broker.async_update() itself: the coordinator and
\* its timer are not involved
DueAfterRefreshNow(d, c) == d

\* the 'refresh now' service is called
RefreshNow ==
    /\ entry.state = "loaded"
    /\ ~busy["service"]
    /\ busy' = [busy EXCEPT !["service"] = TRUE]
    /\ due' = DueAfterRefreshNow(due, coordinator)
    /\ UNCHANGED <<entry, coordinator>>
    /\ UNCHANGED <<brokerVars, loc_utc_offset, childVars, api, ents>>

\* the broker.async_update() awaited by force_refresh returns
RefreshNowDone ==
    /\ busy["service"]
    /\ busy' = [busy EXCEPT !["service"] = FALSE]
    /\ UNCHANGED <<entry, coordinator, due>>
    /\ UNCHANGED <<brokerVars, loc_utc_offset, childVars, api, ents>>

\* the host restarts: the entry is set up again from its stored options
Restart ==
    /\ entry.state \in {"loaded", "setup_failed", "setup_error"}
    /\ entry' = [entry EXCEPT !.state = "not_loaded"]
    /\ coordinator' = NoCoordinator
    /\ due' = NotArmed
    /\ busy' = [c \in Callers |-> FALSE]
    /\ UNCHANGED <<brokerVars, loc_utc_offset, childVars, api, ents>>

NextPoll ==
    \/ StepImport
    \/ StepUser
    \/ StepOptionsInit
    \/ SetupEntry
    \/ RefreshDone
    \/ TimePasses
    \/ TimerFires
    \/ RefreshNow
    \/ RefreshNowDone
    \/ Restart

SpecPoll == Init /\ [][NextPoll]_vars

(* ========================= dispatch of services ======================= *)

InitDispatch ==
    /\ BrokerInit
    /\ loc_idx = 0
    /\ store = NoRecord
    /\ loc_utc_offset = 0
    /\ ha_offset = 0
    /\ now = 0
    /\ ChildInit
    /\ entry = NoEntry
    /\ coordinator = NoCoordinator
    /\ due = NotArmed
    /\ busy = [c \in Callers |-> FALSE]
    /\ \E u \in UniqueIds : ents = EntitiesWith(u)

\* async_dispatcher_send(hass, DOMAIN, ...): the dispatcher starts
\* async_refresh of every connected entity with the message
Send(msg) ==
    /\ \A e \in Entities : ents[e].inbox = NoMessage
    /\ ents' = [e \in Entities |-> [ents[e] EXCEPT !.inbox = msg]]
    /\ UNCHANGED <<brokerVars, loc_utc_offset, childVars, pollVars, api>>

\* the services set_system_mode and reset_system
SetSystemMode ==
    \E svc \in SystemServices : Send(Payload(SystemId, svc))

\* entity ids a caller may name: the entities, and one that is not known
UnknownEntity == 0 - 1

\* set_zone_override: ValueError unless the entity id names a climate
\* entity of this integration; else its unique id goes into the payload
SetZoneOverride ==
    \E target \in Entities \cup {UnknownEntity}, svc \in ZoneServices :
        IF target = UnknownEntity \/ DomainOf(target) # "climate"
        THEN UNCHANGED vars
        ELSE Send(Payload(ents[target].uid, svc))

\* the broadcast of _update_v2_api_state after a successful refresh
StateChanged == Send(Signal)

\* the handler async_refresh picks for a service
HandlerOf(svc) == IF svc \in ZoneServices THEN "zone" ELSE "tcs"

\* an entity that handles every payload, whatever its unique id
AddressedToAny(ent, msg) == TRUE

\* `if payload["unique_id"] != self._attr_unique_id: return`
AddressedTo(ent, msg) == msg.unique_id = ent.uid

\* EvoDevice.async_refresh of entity e with the message msg
EntityAfterRefresh(ent, msg) ==
    CASE msg.kind = "signal" ->
            [ent EXCEPT !.inbox = NoMessage, !.pending = TRUE]
      [] msg.kind = "payload" /\ AddressedTo(ent, msg) ->
            [ent EXCEPT !.inbox = NoMessage,
                        !.handled = [handler |-> HandlerOf(msg.service),
                                     service |-> msg.service]]
      [] OTHER -> [ent EXCEPT !.inbox = NoMessage]

AsyncRefresh(e) ==
    /\ ents[e].inbox # NoMessage
    /\ ents' = [ents EXCEPT ![e] = EntityAfterRefresh(ents[e], ents[e].inbox)]
    /\ UNCHANGED <<brokerVars, loc_utc_offset, childVars, pollVars, api>>

EntityRefreshes == \E e \in Entities : AsyncRefresh(e)

\* the state update scheduled by async_schedule_update_ha_state runs
UpdateHaState ==
    \E e \in Entities :
        /\ ents[e].pending
        /\ ents' = [ents EXCEPT ![e].pending = FALSE]
        /\ UNCHANGED <<brokerVars, loc_utc_offset, childVars, pollVars, api>>

NextDispatch ==
    \/ SetSystemMode
    \/ SetZoneOverride
    \/ StateChanged
    \/ EntityRefreshes
    \/ UpdateHaState

SpecDispatch == InitDispatch /\ [][NextDispatch]_vars

(* ===================== properties of the update cycle ================= *)

\* the tasks inside EvoBroker.async_update
InFlight == {t \in CycleTasks : pc[t] # "idle"}

AllIdle == \A t \in Tasks : pc[t] = "idle"

\* this step is the return of a legacy fetch
LegacyFetchReturns == \E t \in CycleTasks : pc[t] = "v1_await" /\ pc'[t] # "v1_await"

\* this step starts a legacy fetch
LegacyFetchStarts == \E t \in CycleTasks : pc[t] # "v1_await" /\ pc'[t] = "v1_await"

\* the legacy source was disabled (start() had created the legacy client)
LegacyDisabled == phase = "started" /\ ~client_v1.exists

\* this step belongs to a run of task t whose primary refresh failed
FailedPrimaryStep(t) ==
    /\ pc'[t] # pc[t]
    /\ \/ pc[t] = "v2_await" /\ nV2Ok' = nV2Ok
       \/ v2failed[t]

\* C1: at most one update cycle (EvoBroker.async_update) is in flight at any
\* time, under every interleaving of interval ticks and 'refresh now' calls.
C1_AtMostOneCycleInFlight == Cardinality(InFlight) <= 1

\* C2: once a legacy fetch has failed with InvalidSchema the legacy client
\* is gone, it never comes back, and no legacy fetch is started while it is
\* gone.
C2_SchemaMismatchDisablesForGood ==
    [][/\ (LegacyFetchReturns /\ lastV1' = "InvalidSchema")
            => ~client_v1'.exists
       /\ LegacyDisabled => (~client_v1'.exists /\ ~LegacyFetchStarts)]_vars

C2_Witness ==
    /\ lastV1 = "InvalidSchema"
    /\ LegacyDisabled
    /\ nRefresh = 2
    /\ AllIdle

\* C3: a legacy response for a default location other than the configured
\* one is never stored in temps, and it disables the legacy source for good:
\* temps only ever holds readings of the configured location.
C3_LocationMismatchDisables ==
    [][/\ (LegacyFetchReturns /\ lastV1' = "mismatch")
            => (temps' = temps /\ ~client_v1'.exists)
       /\ \A d \in DOMAIN temps' :
            temps'[d] \in {NoTemp, Reading(loc'), LaterReading(loc')}
       /\ (LegacyDisabled /\ lastV1 = "mismatch")
            => (~client_v1'.exists /\ ~LegacyFetchStarts)]_vars

C3_Witness ==
    /\ lastV1 = "mismatch"
    /\ LegacyDisabled
    /\ v1_loc # loc
    /\ temps = EmptyTemps
    /\ nRefresh = 2
    /\ AllIdle

\* C4: after a legacy fetch that failed with a schema mismatch the
\* temperature map is empty, whatever it held before.
C4_SchemaMismatchClearsTemps ==
    lastV1 = "InvalidSchema" => temps = EmptyTemps

\* C5: once the legacy source has degraded (request failure) or has been
\* disabled (schema or location mismatch), every temperature read returns
\* the value of the primary status.
C5_ReadsFallBackToPrimary ==
    (LegacyDisabled \/ lastV1 = "RequestFailed")
        => \A d \in Dev : current_temperature(temps, status, d) = status[d]

\* C6: a legacy fetch that fails with RequestFailed empties temps and keeps
\* the legacy client; a cycle that finds the client fetches again, and a
\* fetch that succeeds for the configured location stores its response.
C6_RequestFailureIsTransient ==
    [][/\ (LegacyFetchReturns /\ lastV1' = "RequestFailed")
            => (temps' = EmptyTemps /\ client_v1'.exists = client_v1.exists)
       /\ \A t \in CycleTasks :
            (/\ pc[t] \in {"v2_await", "v2_save"}
             /\ pc'[t] \notin {"v2_await", "v2_save"}
             /\ client_v1.exists) => pc'[t] = "v1_await"
       /\ (LegacyFetchReturns /\ lastV1' = "ok")
            => (DOMAIN temps' = Dev /\ temps' \in TempResponses(loc))]_vars

C6_Witness ==
    /\ lastV1 = "RequestFailed"
    /\ temps = EmptyTemps
    /\ client_v1.exists
    /\ nRefresh = 2
    /\ pc["tick"] = "v1_await"
    /\ pc["svc"] = "idle"
    /\ ~raised["svc"]

\* C7: the number of 'state changed' broadcasts equals the number of
\* primary refreshes that succeeded.
C7_OneBroadcastPerSuccess == nSent = nV2Ok

C7_Witness == nV2Ok = 1 /\ nSent = 1 /\ nRefresh = 2 /\ AllIdle

\* C8 as stated: in a cycle whose primary refresh failed with RequestFailed
\* nothing further is surfaced: no step of it changes the status or temps.
C8_FailedPrimaryChangesNothing ==
    [][\A t \in Tasks :
         FailedPrimaryStep(t) => (status' = status /\ temps' = temps)]_vars

\* C8 as amended: in a cycle whose primary refresh failed with RequestFailed
\* the status is not changed and nothing is broadcast; temps changes only
\* when the legacy fetch of that cycle returns.
C8_FailedPrimaryKeepsStatus ==
    [][\A t \in Tasks :
         FailedPrimaryStep(t) =>
            /\ status' = status
            /\ nSent' = nSent
            /\ (temps' # temps => pc[t] = "v1_await")]_vars

C8_Witness ==
    /\ nV2Ok = 0
    /\ nRefresh >= 1
    /\ lastV1 = "ok"
    /\ temps # EmptyTemps
    /\ status = NoStatus

(* =================== properties of the schedule projection ============ *)

\* the setpoints property was read at the current instant
WasRead == returned.state # "unread"

\* today's and yesterday's switchpoints of a schedule of 7 days
Today == schedule.days[Weekday(now, ha_offset) + 1]

Yesterday == schedule.days[((Weekday(now, ha_offset) - 1) % 7) + 1]

\* the instant of a switchpoint time of day on the local date plus offset:
\* date and time taken as UTC, minus the location's UTC offset
SwitchInstant(offset, tod) ==
    ((LocalDate(now, ha_offset) + offset) * DayLen + tod - loc_utc_offset)
        * SubSec

\* the read gave a projection with this/next setpoints v1/v2 from i1/i2
Projects(v1, i1, v2, i2) ==
    /\ returned.state = "ok"
    /\ DOMAIN returned.value =
         {"this_sp_from", "this_sp_temp", "next_sp_from", "next_sp_temp"}
    /\ returned.value.this_sp_temp = v1
    /\ IsoInstant(returned.value.this_sp_from) = i1
    /\ returned.value.next_sp_temp = v2
    /\ IsoInstant(returned.value.next_sp_from) = i2

\* C9: for a reference instant strictly between two consecutive
\* switchpoints of today, 'this' is the earlier and 'next' the later one,
\* both from today's date, their times corrected by the location's offset.
C9_BetweenTwoSwitchpoints ==
    WasRead =>
      \A i \in 1 .. (Len(Today) - 1) :
        (/\ Today[i].TimeOfDay * SubSec < LocalTickOfDay(now, ha_offset)
         /\ LocalTickOfDay(now, ha_offset) < Today[i + 1].TimeOfDay * SubSec)
        => Projects(Today[i].value, SwitchInstant(0, Today[i].TimeOfDay),
                    Today[i + 1].value,
                    SwitchInstant(0, Today[i + 1].TimeOfDay))

\* C10: for a reference time before the first switchpoint of the weekday d,
\* 'this' is the last switchpoint of day (d-1) mod 7, dated one day
\* earlier, and 'next' is the first switchpoint of day d, dated today.
C10_BeforeFirstSwitchpoint ==
    (/\ WasRead
     /\ Len(Today) > 0
     /\ Len(Yesterday) > 0
     /\ LocalTickOfDay(now, ha_offset) < Today[1].TimeOfDay * SubSec)
    => Projects(Yesterday[Len(Yesterday)].value,
                SwitchInstant(0 - 1, Yesterday[Len(Yesterday)].TimeOfDay),
                Today[1].value,
                SwitchInstant(0, Today[1].TimeOfDay))

\* a Monday before its first switchpoint: 'this' is Sunday's last one
C10_Witness ==
    /\ returned.state = "ok"
    /\ Weekday(now, ha_offset) = 0
    /\ Len(Today) > 0
    /\ LocalTickOfDay(now, ha_offset) < Today[1].TimeOfDay * SubSec
    /\ "this_sp_temp" \in DOMAIN returned.value
    /\ returned.value.this_sp_temp = 60 + Len(schedule.days[7])
    /\ returned.value.next_sp_temp = 1

\* tomorrow's switchpoints of a schedule of 7 days
Tomorrow == schedule.days[((Weekday(now, ha_offset) + 1) % 7) + 1]

\* C11: for a reference time after the last switchpoint of the weekday d,
\* 'next' is the first switchpoint of day (d+1) mod 7, dated one day later,
\* and 'this' is the last switchpoint of day d.
C11_AfterLastSwitchpoint ==
    (/\ WasRead
     /\ Len(Today) > 0
     /\ Len(Tomorrow) > 0
     /\ LocalTickOfDay(now, ha_offset) > Today[Len(Today)].TimeOfDay * SubSec)
    => Projects(Today[Len(Today)].value,
                SwitchInstant(0, Today[Len(Today)].TimeOfDay),
                Tomorrow[1].value,
                SwitchInstant(1, Tomorrow[1].TimeOfDay))

\* C23: when the reference time of day equals the time of day of one of
\* today's switchpoints exactly, that switchpoint is 'this' and the one
\* following it is 'next' (today's switchpoints being in strictly
\* increasing order of time).
C23_ThisIsLastNotAfterReference ==
    WasRead =>
      \A i \in 1 .. (Len(Today) - 1) :
        (/\ LocalTickOfDay(now, ha_offset) = Today[i].TimeOfDay * SubSec
         /\ \A j \in 1 .. (Len(Today) - 1) :
               Today[j].TimeOfDay < Today[j + 1].TimeOfDay)
        => Projects(Today[i].value, SwitchInstant(0, Today[i].TimeOfDay),
                    Today[i + 1].value,
                    SwitchInstant(0, Today[i + 1].TimeOfDay))

\* every day of the schedule has a switchpoint, in increasing order of time
TimeOrderedFullWeek ==
    /\ ~schedule.isNone
    /\ Len(schedule.days) = 7
    /\ \A d \in 1 .. 7 :
         /\ Len(schedule.days[d]) > 0
         /\ \A j \in 1 .. (Len(schedule.days[d]) - 1) :
               schedule.days[d][j].TimeOfDay < schedule.days[d][j + 1].TimeOfDay

\* C24: for a time-ordered weekly schedule with a switchpoint on each day,
\* whatever the location's and the caller's UTC offsets, the projection
\* brackets the reference instant in absolute time:
\* this_from <= reference instant <= next_from.
C24_ProjectionBracketsReference ==
    (WasRead /\ TimeOrderedFullWeek) =>
        /\ returned.state = "ok"
        /\ IsoInstant(returned.value.this_sp_from) <= now
        /\ now <= IsoInstant(returned.value.next_sp_from)

(* ==================== properties of the device update ================= *)

\* this step ends a device update by reading the setpoints
ReadStep ==
    \/ cpc = "fetching" /\ cpc' = "idle"
    \/ cpc = "idle" /\ cpc' = "idle" /\ nUpdates' # nUpdates

\* a read that gave the empty projection and raised nothing
EmptyProjection == [state |-> "ok", value |-> EmptyDict]

\* C12: when the cached schedule has no day-entries, the projection
\* returned is empty and no error is raised, whatever was computed before.
C12_NoDailySchedulesGivesEmpty ==
    [][(ReadStep /\ schedule' = NoSchedule) => returned' = EmptyProjection]_vars

\* an empty projection was returned while the cache held an earlier one
C12_Witness ==
    /\ schedule = NoSchedule
    /\ cpc = "idle"
    /\ nUpdates = 2
    /\ returned = EmptyProjection
    /\ "next_sp_from" \in DOMAIN setpoints

\* day n (0 is Monday) of the schedule sched has no entry or no switchpoint
NoSwitchpointOn(sched, n) ==
    \/ n + 1 > Len(sched.days)
    \/ Len(sched.days[n + 1]) = 0

\* projecting sched at instant t runs into an index-range failure: today,
\* the day 'this' resolves to or the day 'next' resolves to has no entry,
\* or the resolved day has no switchpoint
RangeFailure(sched, t) ==
    /\ ~sched.isNone
    /\ sched.days # <<>>
    /\ LET dow == Weekday(t, ha_offset) IN
       \/ dow + 1 > Len(sched.days)
       \/ LET sps == sched.days[dow + 1]
              passed == {j \in 1 .. Len(sps) :
                           sps[j].TimeOfDay < TimeOfDayStr(t, ha_offset)}
              thisDay == IF passed = {} THEN (dow - 1) % 7 ELSE dow
              nextDay == IF passed = 1 .. Len(sps) THEN (dow + 1) % 7 ELSE dow
          IN  NoSwitchpointOn(sched, thisDay) \/ NoSwitchpointOn(sched, nextDay)

\* C13: an index-range failure while projecting yields the empty
\* projection, raises nothing, and leaves no entry in the cache: neither an
\* earlier projection nor a 'this' entry written before 'next' failed.
C13_IndexFailureGivesEmpty ==
    [][(ReadStep /\ RangeFailure(schedule', now))
       => (returned' = EmptyProjection /\ setpoints' = EmptyDict)]_vars

\* 'this' was found today and 'next' failed on an empty tomorrow, in the
\* second update
C13_Witness ==
    /\ cpc = "idle"
    /\ nUpdates = 2
    /\ nFetches = 2
    /\ RangeFailure(schedule, now)
    /\ Len(schedule.days) = 7
    /\ Len(Today) = 1
    /\ Today[1].TimeOfDay < TimeOfDayStr(now, ha_offset)
    /\ Len(Tomorrow) = 0
    /\ returned = EmptyProjection
    /\ setpoints = EmptyDict

\* this step is a call of EvoChild.async_update
UpdateCalled == nUpdates' # nUpdates

\* the last read gave a projection with a next_sp_from
PriorProjection ==
    returned.state = "ok" /\ "next_sp_from" \in DOMAIN returned.value

\* no projection was given before, or the current instant has reached or
\* passed the next_sp_from of the projection given last
RefetchExpected ==
    \/ ~PriorProjection
    \/ now >= IsoInstant(returned.value.next_sp_from)

\* C14: a device update fetches the schedule exactly when no prior
\* projection exists or the current instant has reached or passed the
\* cached next_from; otherwise it fetches nothing and keeps the schedule.
C14_RefetchExactlyWhenDue ==
    [][UpdateCalled =>
         /\ (nFetches' = nFetches + 1) <=> RefetchExpected
         /\ ~RefetchExpected => (nFetches' = nFetches /\ schedule' = schedule)
      ]_vars

\* a second update that found the cached next_from still ahead and did not
\* fetch
C14_Witness ==
    /\ cpc = "idle"
    /\ nUpdates = 2
    /\ nFetches = 1
    /\ PriorProjection
    /\ now < IsoInstant(returned.value.next_sp_from)

\* some switchpoint of sched carries neither a temperature nor a state
HasValuelessSwitchpoint(sched) ==
    /\ ~sched.isNone
    /\ \E n \in 1 .. Len(sched.days) :
         \E j \in 1 .. Len(sched.days[n]) :
            sched.days[n][j].kind \notin {"heatSetpoint", "DhwState"}

\* C25: for a malformed schedule (a day without the switchpoint the
\* projection resolves to, or a switchpoint that carries neither a
\* temperature nor an on/off state) the device update ends with the empty
\* projection and no error propagates out of it.
C25_MalformedScheduleGivesEmpty ==
    [][(/\ ReadStep
        /\ RangeFailure(schedule', now) \/ HasValuelessSwitchpoint(schedule'))
       => returned' = EmptyProjection]_vars

\* the projection v exposes, for key "this" or "next", a numeric setpoint
\* or a named state and not both
OneValueKind(v, temp, state) ==
    (temp \in DOMAIN v) # (state \in DOMAIN v)

\* C26: every projection returned that is not empty exposes, for each of
\* 'this' and 'next', either a numeric setpoint or a named state and never
\* both, whatever schedules were fetched and projected before on the same
\* device.
C26_EitherSetpointOrState ==
    (returned.state = "ok" /\ returned.value # EmptyDict) =>
        /\ OneValueKind(returned.value, "this_sp_temp", "this_sp_state")
        /\ OneValueKind(returned.value, "next_sp_temp", "next_sp_state")

\* C31: when a schedule fetch fails with RequestFailed, the device keeps
\* the schedule it had cached before the fetch, and the projection computed
\* right after the failed fetch does not raise.
C31_FailedFetchKeepsSchedule ==
    [][\A got \in FetchedSchedules :
         FetchReturns("RequestFailed", got)
         => (schedule' = schedule /\ returned'.state = "ok")
      ]_vars

(* ==================== properties of temperature reads ================= *)

\* the temperature map holds a high-precision reading for device d
HasReading(d) == d \in DOMAIN temps /\ temps[d][1] = "v1"

\* C15: a temperature read returns the legacy reading when the current map
\* holds one (not null) for the device, and otherwise the value of the
\* primary status; the choice follows the map as it is at the read.
C15_ReadPrefersLegacyReading ==
    \A d \in Dev :
        /\ HasReading(d) => current_temperature(temps, status, d) = temps[d]
        /\ ~HasReading(d) => current_temperature(temps, status, d) = status[d]

\* the map holds a reading for d1 and null for d2, the status was refreshed
C15_Witness ==
    /\ nV2Ok > 0
    /\ HasReading("d1")
    /\ "d2" \in DOMAIN temps
    /\ temps["d2"] = NoTemp
    /\ current_temperature(temps, status, "d1") = Reading(loc)
    /\ current_temperature(temps, status, "d2") = <<"v2", 20>>

(* ================== properties of the credential store ================ *)

\* this step is the load of the stored credentials by login()
LoadStep == phase = "constructed" /\ phase' = "loaded"

\* the store holds nothing, or a record whose username is absent or is
\* not the configured one
ForeignStore == ~store.exists \/ store.username # Username

\* C16: loading from a store whose username is absent or differs from the
\* configured one yields empty credentials (no tokens, no legacy session
\* id), raises nothing and leaves the stored record as it is.
C16_ForeignStoreLoadsEmpty ==
    [][(LoadStep /\ ForeignStore)
       => (tokens' = EmptyTokens /\ session_id' = None /\ store' = store)]_vars

\* the record of another account was loaded
C16_Witness ==
    /\ phase = "loaded"
    /\ store.exists
    /\ store.username = "other"
    /\ store.access_token = "a1"
    /\ tokens = EmptyTokens
    /\ session_id = None

\* the absolute instant of a naive local datetime, in ticks
NaiveInstant(naive, haOff) == (naive - haOff) * SubSec

\* the legacy session id that save_auth_tokens is given
HeldSessionId == IF client_v1.exists THEN client_v1.broker_sid ELSE None

\* C17: saving the credentials and loading them under the same username
\* yields the same refresh token, access token and legacy session id, and
\* an expiry that denotes the same instant; the stored expiry is that
\* instant as an aware datetime.
C17_SaveLoadRoundTrip ==
    phase = "reloaded" =>
        /\ tokens.refresh_token = client.refresh_token
        /\ tokens.access_token = client.access_token
        /\ session_id = HeldSessionId
        /\ NaiveInstant(tokens.access_token_expires, ha_offset)
             = NaiveInstant(client.access_token_expires, ha_offset)
        /\ IsoInstant(store.access_token_expires)
             = NaiveInstant(client.access_token_expires, ha_offset)

\* credentials with a session id went through the store in a time zone
\* that is not UTC
C17_Witness ==
    /\ phase = "reloaded"
    /\ ha_offset # 0
    /\ client.access_token_expires > 0
    /\ client_v1.exists
    /\ session_id = "s2"
    /\ tokens.access_token = "a2"

\* the store holds a record of this account without legacy session id
SessionlessStore ==
    /\ store.exists
    /\ store.username = Username
    /\ store.user_data \in {NoUserData, None}

\* C34: loading a record with the configured username and without legacy
\* session id (no user-data section, or one without session id) raises
\* nothing, yields the stored tokens, the expiry denoting the stored
\* instant, and no legacy session id.
C34_SessionlessRecordLoads ==
    (phase \in {"reloaded", "loadedstored"} /\ SessionlessStore) =>
        /\ tokens.refresh_token = store.refresh_token
        /\ tokens.access_token = store.access_token
        /\ NaiveInstant(tokens.access_token_expires, ha_offset)
             = IsoInstant(store.access_token_expires)
        /\ session_id = None

\* a record without user-data section was loaded
C34_Witness ==
    /\ phase = "loadedstored"
    /\ store.exists
    /\ store.user_data = NoUserData
    /\ tokens.access_token = "a1"
    /\ session_id = None

(* ========================= properties of login ======================== *)

\* this step is login() from the creation of the client to its end
LoginStep == phase = "loaded" /\ phase' \in {"loggedin", "failed"}

\* C18: with n locations, login() with a location index outside 0..n-1,
\* negative indexes included, fails with AuthenticationFailed and does not
\* write the credential store.
C18_BadLocationIndexFailsLogin ==
    [][(LoginStep /\ loc_idx \notin Locs)
       => (phase' = "failed" /\ store' = store)]_vars

\* C19: login() writes the credential store exactly when it succeeds: after
\* a successful login the record holds the configured username and the
\* client's refresh token, access token and expiry; a login that fails
\* with AuthenticationFailed leaves the record unchanged.
C19_LoginSavesOnSuccessOnly ==
    [][LoginStep =>
         /\ phase' = "loggedin" =>
              /\ store'.exists
              /\ store'.username = Username
              /\ store'.refresh_token = client'.refresh_token
              /\ store'.access_token = client'.access_token
              /\ IsoInstant(store'.access_token_expires)
                   = NaiveInstant(client'.access_token_expires, ha_offset)
         /\ phase' = "failed" => store' = store
      ]_vars

\* a login over another account's record succeeded and replaced it
C19_Witness ==
    /\ phase = "loggedin"
    /\ tokens = EmptyTokens
    /\ client.access_token = "a1"
    /\ store.exists
    /\ store.username = Username
    /\ store.access_token = "a1"
    /\ store.user_data = None

\* C20: if login fails with AuthenticationFailed, setup of the entry
\* reports failure and nothing is scheduled: no coordinator, no polling
\* timer, no update, no platform and no service, then or later.
C20_FailedLoginAbortsSetup ==
    phase = "failed" =>
        /\ setup.result = "failed"
        /\ ~setup.coordinator
        /\ ~setup.platforms
        /\ ~setup.services
        /\ ~tracking
        /\ timers = 0
        /\ nRefresh = 0
        /\ AllIdle

\* the vendor accepted the login and the location index was out of range
C20_Witness ==
    /\ phase = "failed"
    /\ setup = SetupFailed
    /\ loc_idx = NumLocs
    /\ tokens = EmptyTokens
    /\ client.access_token = "a1"

\* the interval-driven task is between two cycles, its last one having
\* returned normally
BetweenIntervalCycles ==
    /\ phase = "started"
    /\ tracking
    /\ pc["tick"] = "idle"

C22_IntervalNeverBelowMinimum ==
    coordinator.exists => coordinator.update_interval >= SCAN_INTERVAL_MINIMUM

\* a coordinator made from imported options that hold exactly the minimum
C22_Witness ==
    /\ coordinator.exists
    /\ entry.source = "import"
    /\ coordinator.update_interval = SCAN_INTERVAL_MINIMUM

\* a step of the 'refresh now' service: it is called, or its update returns
RefreshNowStep ==
    /\ entry.state = "loaded"
    /\ entry' = entry
    /\ busy'["service"] # busy["service"]

\* C29: serving a 'refresh now' request does not touch the interval timer:
\* the time left until the next interval-driven cycle, and the interval
\* itself, are the same after each step of the request as before it.
C29_RefreshNowKeepsTimer ==
    [][RefreshNowStep => (due' = due /\ coordinator' = coordinator)]_vars

\* a 'refresh now' request is being served while the timer is part-way
\* through its interval
C29_Witness ==
    /\ busy["service"]
    /\ ~busy["timer"]
    /\ due > 0
    /\ due < coordinator.update_interval

\* C35: after a successful setup of an entry, the broker driven by the
\* coordinator and by the 'refresh now' service is one on which login()
\* has completed.
C35_DrivenBrokerIsLoggedIn ==
    entry.state \in {"refreshing", "loaded"} =>
        /\ coordinator.broker.constructed
        /\ coordinator.broker.logged_in

\* C36: under every interleaving of two update cycles, a cycle resuming
\* after its legacy fetch never dereferences the legacy client handle
\* after another cycle has disabled it: no legacy step ends in the
\* unhandled AttributeError of `self.client_v1.location_id` on None.
C36_NoDereferenceOfDisabledLegacy == lastV1 # "AttributeError"

\* C37: saving credentials never replaces a stored legacy session id by
\* an empty one: once a load has read a session id, the stored record
\* holds a legacy session id after every later save.
C37_StoredSessionIdIsKept ==
    session_id # None => SessionIdOf(store.user_data) # None

\* C38: call_client_api absorbs RequestFailed: a call that fails with it
\* returns no result, raises nothing and schedules no state refresh; a
\* call that succeeds with update_state set schedules exactly one delayed
\* primary status refresh and returns the result, and with update_state
\* unset schedules none.
C38_CallClientApiAbsorbsRequestFailed ==
    [][\A out \in ApiOutcomes, update_state \in BOOLEAN :
          CallClientApiFor(out, update_state) =>
              /\ ~api'.raised
              /\ out = "RequestFailed" =>
                    (api'.result = None /\ timers' = timers)
              /\ out = "ok" =>
                    /\ api'.result = ApiResult
                    /\ timers' = IF update_state THEN timers + 1 ELSE timers
      ]_vars

\* a failed call that asked for a state refresh has returned, and no
\* delayed refresh is pending
C38_Witness ==
    /\ api.out = "RequestFailed"
    /\ api.update_state
    /\ api.result = None
    /\ timers = 0

\* C39: a dispatched service payload is processed only by the entity whose
\* unique id equals the payload's, and every other entity is left
\* unchanged; the zone-override services go to the zone handler and all
\* other services to the controller handler; a signal without payload
\* only schedules a state refresh of the entity.
C39_PayloadReachesItsEntityOnly ==
    [][\A e \in Entities :
          AsyncRefresh(e) =>
              LET msg == ents[e].inbox
                  zone == msg.service \in ZoneServices
              IN  /\ \A f \in Entities \ {e} : ents'[f] = ents[f]
                  /\ ents'[e].uid = ents[e].uid
                  /\ (msg.kind = "payload" /\ msg.unique_id # ents[e].uid) =>
                        /\ ents'[e].handled = ents[e].handled
                        /\ ents'[e].pending = ents[e].pending
                  /\ (msg.kind = "payload" /\ msg.unique_id = ents[e].uid) =>
                        /\ ents'[e].handled.service = msg.service
                        /\ ents'[e].handled.handler =
                              IF zone THEN "zone" ELSE "tcs"
                        /\ ents'[e].pending = ents[e].pending
                  /\ msg.kind = "signal" =>
                        /\ ents'[e].handled = ents[e].handled
                        /\ ents'[e].pending
      ]_vars

\* a zone-override payload for a zone was delivered to every entity: the
\* zone has handled it with its zone handler, the others have dropped it
C39_Witness ==
    \E z \in Zones :
        /\ ents[z].uid # SystemId
        /\ ents[z].handled.handler = "zone"
        /\ ents[Controller].handled = NotHandled
        /\ \A e \in Entities : ents[e].inbox = NoMessage

\* C40: every config entry created by the user-initiated flow holds the
\* username, the password and the location index, the keys EvoBroker
\* reads on construction, and is created only after the location-index
\* step has received an input of its own.
C40_UserEntryHasAllKeys ==
    entry.flow = "user" =>
        /\ ConfigKeys \subseteq entry.data_keys
        /\ entry.location_asked

\* the complete maps that one legacy response gives
CompleteMaps == {TempsOfResponse(r) : r \in TempResponses(v1_loc)}

\* C32: the high-precision temperature map changes all-or-nothing: after
\* every step, a step that abandons a cycle included, it is the map held
\* before, the empty map, or the complete map of one single legacy
\* response; it never mixes entries of two responses.
C32_TempsAllOrNothing ==
    [][temps' \in {temps, EmptyTemps} \cup CompleteMaps]_vars

\* a cycle was abandoned after a later response had replaced an earlier map
C32_Witness ==
    /\ \E t \in CycleTasks : raised[t]
    /\ lastV1 = "ok"
    /\ temps = [d \in Dev |-> LaterReading(v1_loc)]
    /\ nRefresh = 2

\* this step is EvoBroker.start, up to its await of the first update
StartStep == phase = "loggedin" /\ phase' = "started"

\* C33: start() builds the legacy client with the session id that the last
\* load read from the store (none if it read none) and then writes a record
\* that carries the legacy client's session id; only a load sets the
\* session id the broker keeps.
C33_StartReusesCachedSession ==
    [][/\ StartStep =>
            /\ client_v1'.exists
            /\ client_v1'.broker_sid = session_id
            /\ store'.exists
            /\ store'.user_data = client_v1'.broker_sid
       /\ ~LoadStep => session_id' = session_id
       /\ LoadStep =>
            session_id' = IF ForeignStore THEN None ELSE store.user_data
      ]_vars

\* start() has just run on a broker whose load read the session id s1
C33_Witness ==
    /\ phase = "started"
    /\ nRefresh = 1
    /\ pc["tick"] = "v2_await"
    /\ session_id = "s1"
    /\ client_v1.broker_sid = "s1"
    /\ store.user_data = "s1"

\* C30: whatever the outcomes of the primary fetch (success, RequestFailed)
\* and of the legacy fetch (success, RequestFailed, schema mismatch,
\* location mismatch), no run of an update cycle ends by raising to its
\* caller.
C30_CycleNeverRaises == \A t \in Tasks : ~raised[t]

(* =================== properties of credential persistence ============= *)

\* in this step the remote call of task t returns and the task goes on to
\* write the store
SavesAfterPrimary(t) == pc[t] = "v2_await" /\ pc'[t] = "v2_save"

SavesAfterLegacy(t) == pc[t] = "v1_await" /\ pc'[t] = "v1_save"

\* C27: in an update cycle the store is written only if the access token,
\* or the session id the legacy client holds, differs after the remote call
\* from what it was before that call; the first cycle after start included.
C27_SavesOnlyOnChange ==
    [][\A t \in Tasks :
         /\ SavesAfterPrimary(t) => client'.access_token # tok0[t]
         /\ SavesAfterLegacy(t) => client_v1'.broker_sid # sid0[t].held
      ]_vars

\* in this step the legacy fetch of task t returns with outcome out, the
\* legacy client having taken the new session id sid during the call
LegacyReturnsWithNewSession(t, out, sid) ==
    /\ client_v1.exists
    /\ sid # "keep"
    /\ sid # client_v1.broker_sid
    /\ sid # sid0[t].held
    /\ \E resp \in TempResponses(v1_loc) : V1Return(t, out, resp, sid)

\* C28: whatever the outcome of a legacy fetch (success, request failure,
\* schema mismatch, location mismatch), if the legacy session id changed
\* during the call then the store is written in that cycle, with the new
\* session id.
C28_ChangedSessionIsSaved ==
    [][\A t \in CycleTasks, sid \in SessionIds,
          out \in {"ok", "InvalidSchema", "RequestFailed"} :
         LegacyReturnsWithNewSession(t, out, sid)
         => (pc'[t] = "v1_save" /\ store'.user_data = sid)
      ]_vars

====
